---- MODULE Spec2Model ----
(***************************************************************************)
(* The recursive directory listing of src-tauri/src/lib.rs                 *)
(* (read_directory, read_dir_recursive) over a small file system that an   *)
(* external actor may modify while a listing runs.                         *)
(*                                                                         *)
(* A name is the sequence of the code points of its characters, a path is  *)
(* the sequence of its components below "/".                               *)
(***************************************************************************)
EXTENDS Integers, Sequences, FiniteSets, TLC

-----------------------------------------------------------------------------
(* Bounds of the model.                                                    *)

\* The largest number of directory entries of a generated file system.
MaxEntries == 2

\* The number of symbolic links stat follows in one path before it gives up
\* (ELOOP); Linux follows 40.
MaxSymlinks == 2

-----------------------------------------------------------------------------
(* Names.                                                                  *)

n_a            == <<97>>
n_A            == <<65>>
n_Btxt         == <<66, 46, 116, 120, 116>>
n_hidden       == <<46, 104, 105, 100, 100, 101, 110>>
n_node_modules == <<110, 111, 100, 101, 95, 109, 111, 100, 117, 108, 101, 115>>
n_target       == <<116, 97, 114, 103, 101, 116>>
n_pycache      == <<95, 95, 112, 121, 99, 97, 99, 104, 101, 95, 95>>

\* name.starts_with('.')
StartsWithDot(name) == Len(name) > 0 /\ name[1] = 46

\* Skip with the ignore-set left out: only hidden entries are skipped.
SkipHiddenOnly(name) == StartsWithDot(name)

\* The test of line 97: hidden entries and the directories to ignore.
Skip(name) ==
    \/ StartsWithDot(name)
    \/ name = n_node_modules
    \/ name = n_target
    \/ name = n_pycache

\* char::to_lowercase on the ASCII range.
LowerChar(c) == IF c \in 65..90 THEN c + 32 ELSE c

\* String::to_lowercase
to_lowercase(s) == [i \in 1..Len(s) |-> LowerChar(s[i])]

\* Ord for String: lexicographic on the bytes. "Less", "Equal" or "Greater".
RECURSIVE StrCmp(_, _)
StrCmp(s, t) ==
    IF s = <<>> /\ t = <<>> THEN "Equal"
    ELSE IF s = <<>> THEN "Less"
    ELSE IF t = <<>> THEN "Greater"
    ELSE IF Head(s) < Head(t) THEN "Less"
    ELSE IF Head(s) > Head(t) THEN "Greater"
    ELSE StrCmp(Tail(s), Tail(t))

-----------------------------------------------------------------------------
(* FileNode and the sort.                                                  *)

None == [some |-> FALSE, nodes |-> <<>>]
Some(v) == [some |-> TRUE, nodes |-> v]

\* FileNode with entry.file_name() where entry.path() belongs.
FileNodeNameAsPath(name, path, is_dir, children) ==
    [name |-> name, path |-> <<name>>, is_dir |-> is_dir, children |-> children]

\* The struct literal of lines 107-112.
FileNode(name, path, is_dir, children) ==
    [name |-> name, path |-> path, is_dir |-> is_dir, children |-> children]

\* Compare without the match on is_dir: by name alone.
CompareByName(a, b) == StrCmp(to_lowercase(a.name), to_lowercase(b.name))

\* Compare without to_lowercase: the names as they are.
CompareCaseSensitive(a, b) ==
    IF a.is_dir /\ ~b.is_dir THEN "Less"
    ELSE IF ~a.is_dir /\ b.is_dir THEN "Greater"
    ELSE StrCmp(a.name, b.name)

\* The comparator closure of lines 116-122.
Compare(a, b) ==
    IF a.is_dir /\ ~b.is_dir THEN "Less"
    ELSE IF ~a.is_dir /\ b.is_dir THEN "Greater"
    ELSE StrCmp(to_lowercase(a.name), to_lowercase(b.name))

\* x put into the sorted s behind every element that is not greater than it.
RECURSIVE Insert(_, _)
Insert(s, x) ==
    IF s = <<>> THEN <<x>>
    ELSE IF Compare(x, s[Len(s)]) = "Less"
         THEN Append(Insert(SubSeq(s, 1, Len(s) - 1), x), s[Len(s)])
         ELSE Append(s, x)

\* The sort left out: the nodes in the order they were pushed.
SortNodesOmitted(s) == s

\* slice::sort_by: a stable sort.
RECURSIVE SortNodes(_)
SortNodes(s) ==
    IF s = <<>> THEN <<>>
    ELSE Insert(SortNodes(SubSeq(s, 1, Len(s) - 1)), s[Len(s)])

-----------------------------------------------------------------------------
(* The file system: what fs::read_dir and Path::is_dir see.                *)

\* The inodes: "d1" is the directory "/", "f" stands for every regular file,
\* "l" is a symbolic link whose target is the path fs.target.
Dirs  == {"d1", "d2", "d3"}
NoIno == "none"

\* The cap on the depth of the call stack. A listing never reaches it: a
\* path goes through each directory at most once between two links.
MaxDepth == (MaxSymlinks + 1) * Cardinality(Dirs) + 1

\* The entry of directory d named name, or NoIno. An entry is
\* <<directory, name, inode>>.
Lookup(f, d, name) ==
    IF \E t \in f.ent : t[1] = d /\ t[2] = name
    THEN (CHOOSE t \in f.ent : t[1] = d /\ t[2] = name)[3]
    ELSE NoIno

\* Path resolution that follows any number of symbolic links.
RECURSIVE WalkUnlimited(_, _, _, _)
WalkUnlimited(f, ino, path, hops) ==
    IF path = <<>> THEN ino
    ELSE IF ino \notin Dirs THEN NoIno
    ELSE LET c == Lookup(f, ino, Head(path)) IN
         IF c = NoIno THEN NoIno
         ELSE IF c = "l"
              THEN WalkUnlimited(f, "d1", f.target \o Tail(path), hops)
              ELSE WalkUnlimited(f, c, Tail(path), hops)

\* Path resolution as stat does it: every symbolic link on the way is
\* followed, the last component included, and the resolution fails once
\* MaxSymlinks links were followed. The inode, or NoIno.
RECURSIVE Walk(_, _, _, _)
Walk(f, ino, path, hops) ==
    IF path = <<>> THEN ino
    ELSE IF ino \notin Dirs THEN NoIno
    ELSE LET c == Lookup(f, ino, Head(path)) IN
         IF c = NoIno THEN NoIno
         ELSE IF c = "l"
              THEN IF hops >= MaxSymlinks THEN NoIno
                   ELSE Walk(f, "d1", f.target \o Tail(path), hops + 1)
              ELSE Walk(f, c, Tail(path), hops)

Resolve(f, path) == Walk(f, "d1", path, 0)

\* Path::is_dir: false as well when the path cannot be resolved.
IsDir(f, path) == Resolve(f, path) \in Dirs

\* The names of the entries of directory d.
EntryNames(f, d) == {t[2] : t \in {u \in f.ent : u[1] = d}}

\* fs::read_dir(path): the open directory, or the error.
read_dir(f, path) ==
    LET d == Resolve(f, path) IN
    IF d = NoIno THEN [ok |-> FALSE, err |-> "NotFound", dir |-> NoIno]
    ELSE IF d \notin Dirs THEN [ok |-> FALSE, err |-> "NotADirectory", dir |-> NoIno]
    ELSE [ok |-> TRUE, err |-> "", dir |-> d]

\* The orders in which the entries of a directory may be enumerated.
Perms(S) ==
    LET n == Cardinality(S) IN
    {s \in [1..n -> S] : \A i, j \in 1..n : i # j => s[i] # s[j]}

-----------------------------------------------------------------------------
(* The file systems a run starts from.                                     *)

\* The entries a generated file system is made of.
Cand ==
    { <<"d1", n_a, "d2">>, <<"d1", n_a, "f">>, <<"d1", n_A, "f">>,
      <<"d1", n_A, "d3">>, <<"d1", n_Btxt, "f">>,
      <<"d2", n_target, "d3">>, <<"d2", n_A, "d3">>, <<"d2", n_a, "f">>,
      <<"d2", n_A, "l">>,
      <<"d3", n_a, "f">>, <<"d3", n_pycache, "f">> }

\* The directories reachable from "/" through the entries E.
Reach(E) ==
    LET r1 == {"d1"}
        r2 == r1 \cup {t[3] : t \in {u \in E : u[1] \in r1 /\ u[3] \in Dirs}}
        r3 == r2 \cup {t[3] : t \in {u \in E : u[1] \in r2 /\ u[3] \in Dirs}}
    IN r3

\* E without the entries no path leads to.
Prune(E) == {t \in E : t[1] \in Reach(E)}

\* A tree: a name names one entry of a directory, a directory and the link
\* have one parent, every entry can be reached.
WellFormed(E) ==
    /\ \A t, u \in E : (t[1] = u[1] /\ t[2] = u[2]) => t = u
    /\ \A t, u \in E : (t[3] = u[3] /\ t[3] # "f") => t = u
    /\ Prune(E) = E

Targets(E) ==
    IF \E t \in E : t[3] = "l" THEN {<<>>, <<n_a>>, <<n_Btxt>>} ELSE {<<>>}

\* root/ with B.txt, a/ (empty), .hidden and node_modules/ (not empty).
ScenarioFS ==
    [ent |-> { <<"d1", n_Btxt, "f">>, <<"d1", n_a, "d2">>,
               <<"d1", n_hidden, "f">>, <<"d1", n_node_modules, "d3">>,
               <<"d3", n_a, "f">> },
     target |-> <<>>]

\* a/ with target/ (not empty) in it.
NestedIgnoredFS ==
    [ent |-> { <<"d1", n_a, "d2">>, <<"d2", n_target, "d3">>, <<"d3", n_a, "f">> },
     target |-> <<>>]

\* a/ with the file a and the directory A/ (not empty) in it.
DeepFS ==
    [ent |-> { <<"d1", n_a, "d2">>, <<"d2", n_a, "f">>, <<"d2", n_A, "d3">>,
               <<"d3", n_a, "f">> },
     target |-> <<>>]

\* The files a, A and B.txt.
CaseFS ==
    [ent |-> { <<"d1", n_a, "f">>, <<"d1", n_A, "f">>, <<"d1", n_Btxt, "f">> },
     target |-> <<>>]

\* a/ with the file a and the link A to "/" in it: a cycle.
CycleFS ==
    [ent |-> { <<"d1", n_a, "d2">>, <<"d2", n_a, "f">>, <<"d2", n_A, "l">> },
     target |-> <<>>]

Scenarios == {ScenarioFS, NestedIgnoredFS, DeepFS, CaseFS, CycleFS}

\* Every tree of at most MaxEntries of the entries Cand, and the scenarios.
FileSystems ==
    LET Es == {E \in SUBSET Cand : Cardinality(E) <= MaxEntries /\ WellFormed(E)}
    IN  UNION {{[ent |-> E, target |-> t] : t \in Targets(E)} : E \in Es}
        \cup Scenarios

\* The paths a listing is asked for.
RootPaths == {<<>>, <<n_a>>}

-----------------------------------------------------------------------------
(* The state.                                                              *)

VARIABLES
    fs,        \* the file system
    args,      \* the running (or last) call: path, recursive
    stack,     \* the frames of read_dir_recursive, the innermost last
    result,    \* what the call returned
    prev,      \* the call before, while the file system is as it was then
    dirty,     \* the file system changed since the call started
    opens,     \* fs::read_dir was called since the call started
    failed,    \* the depth of the frame whose enumeration met an I/O error, or 0
    vanished   \* a sub-directory vanished before its enumeration began

vars == <<fs, args, stack, result, prev, dirty, opens, failed, vanished>>

NoArgs   == [path |-> <<>>, recursive |-> FALSE]
NoResult == [st |-> "none", nodes |-> <<>>, err |-> ""]
Ok(v)    == [st |-> "ok", nodes |-> v, err |-> ""]
Err(e)   == [st |-> "err", nodes |-> <<>>, err |-> e]
NoPrev   == [args |-> NoArgs, result |-> NoResult]
NoCur    == [name |-> <<>>, path |-> <<>>, is_dir |-> FALSE]

\* A frame of read_dir_recursive: its path, where it is, the open directory
\* and the entries it has yet to yield, the nodes pushed, the entry whose
\* children are being listed.
Frame(path) ==
    [path |-> path, pc |-> "check", dir |-> NoIno, entries |-> <<>>,
     nodes |-> <<>>, cur |-> NoCur]

Top  == stack[Len(stack)]
Rest == SubSeq(stack, 1, Len(stack) - 1)

Running  == stack # <<>>
Returned == stack = <<>> /\ result.st # "none"

Init ==
    /\ fs \in FileSystems
    /\ args = NoArgs
    /\ stack = <<>>
    /\ result = NoResult
    /\ prev = NoPrev
    /\ dirty = FALSE
    /\ opens = FALSE
    /\ failed = 0
    /\ vanished = FALSE

-----------------------------------------------------------------------------
(* The listing.                                                            *)

\* A call of read_dir_recursive(path, recursive) from outside.
Enter(path, recursive) ==
    /\ ~Running
    /\ args' = [path |-> path, recursive |-> recursive]
    /\ stack' = <<Frame(path)>>
    /\ result' = NoResult
    /\ prev' = IF result.st # "none" /\ ~dirty /\ args.path = path
                    /\ args.recursive = recursive
               THEN [args |-> args, result |-> result] ELSE NoPrev
    /\ dirty' = FALSE
    /\ opens' = FALSE
    /\ failed' = 0
    /\ vanished' = FALSE
    /\ UNCHANGED fs

\* The command read_directory(path), lines 27-31.
read_directory ==
    \E path \in RootPaths : Enter(path, TRUE)

\* read_dir_recursive(path, recursive) itself.
read_dir_recursive ==
    \E path \in RootPaths, recursive \in BOOLEAN :
        Enter(path, recursive)

\* Ok(nodes) of the innermost call: the result of the listing, or the
\* children of the entry its caller is at (lines 102, 107-112).
ReturnOk(nodes) ==
    IF Len(stack) = 1
    THEN /\ stack' = <<>>
         /\ result' = Ok(nodes)
    ELSE LET caller == stack[Len(stack) - 1]
             node == FileNode(caller.cur.name, caller.cur.path,
                              caller.cur.is_dir, Some(nodes))
         IN  /\ stack' = SubSeq(stack, 1, Len(stack) - 2) \o
                          <<[caller EXCEPT !.pc = "loop", !.cur = NoCur,
                                           !.nodes = Append(@, node)]>>
             /\ UNCHANGED result


\* The error taken for an empty listing, as unwrap_or_default() would.
ReturnErrAsEmpty(e) == ReturnOk(<<>>)

\* The ? operator of lines 88, 91 and 102: the error leaves every frame
\* and is the result of the listing.
ReturnErr(e) ==
    /\ stack' = <<>>
    /\ result' = Err(e)

\* CheckIsDir without the early return of lines 84-86.
CheckIsDirNoGuard ==
    /\ Running
    /\ Top.pc = "check"
    /\ stack' = [stack EXCEPT ![Len(stack)].pc = "open"]
    /\ UNCHANGED <<fs, args, result, prev, dirty, opens, failed, vanished>>

\* Lines 84-86: a path that is no directory lists as nothing.
CheckIsDir ==
    /\ Running
    /\ Top.pc = "check"
    /\ IF ~IsDir(fs, Top.path)
       THEN ReturnOk(<<>>)
       ELSE /\ stack' = [stack EXCEPT ![Len(stack)].pc = "open"]
            /\ UNCHANGED result
    /\ UNCHANGED <<fs, args, prev, dirty, opens, failed, vanished>>

\* Line 88: fs::read_dir(path)? on a path that is open to reading. The
\* entries are those of the directory as it is now, in any order.
OpenDir ==
    /\ Running
    /\ Top.pc = "open"
    /\ opens' = TRUE
    /\ LET r == read_dir(fs, Top.path) IN
       IF r.ok
       THEN /\ \E order \in Perms(EntryNames(fs, r.dir)) :
                   stack' = [stack EXCEPT ![Len(stack)] =
                                [@ EXCEPT !.pc = "loop", !.dir = r.dir,
                                          !.entries = order]]
            /\ UNCHANGED <<result, failed>>
       ELSE /\ ReturnErr(r.err)
            /\ failed' = Len(stack)
    /\ UNCHANGED <<fs, args, prev, dirty, vanished>>

\* Line 88: fs::read_dir(path)? fails although the directory is there
\* (permission denied, too many open files, an I/O error).
OpenError ==
    /\ Running
    /\ Top.pc = "open"
    /\ opens' = TRUE
    /\ read_dir(fs, Top.path).ok
    /\ ReturnErr("PermissionDenied")
    /\ failed' = Len(stack)
    /\ UNCHANGED <<fs, args, prev, dirty, vanished>>

\* ShouldRecurse without the test of recursive.
ShouldRecurseAnyDir(is_dir, recursive) == is_dir

\* The condition of line 101.
ShouldRecurse(is_dir, recursive) == is_dir /\ recursive

\* Lines 92-112 for the entry named name: skipped, pushed as a node without
\* children, or listed by a recursive call first.
VisitEntry(name) ==
    LET path == Append(Top.path, name)
        is_dir == IsDir(fs, path)
        rest == [Top EXCEPT !.entries = Tail(@)]
    IN  IF Skip(name)
        THEN stack' = Rest \o <<rest>>
        ELSE IF ShouldRecurse(is_dir, args.recursive)
        THEN /\ Len(stack) < MaxDepth
             /\ stack' = Rest \o
                    <<[rest EXCEPT !.pc = "wait",
                          !.cur = [name |-> name, path |-> path, is_dir |-> is_dir]],
                      Frame(path)>>
        ELSE stack' = Rest \o
                 <<[rest EXCEPT !.nodes =
                       Append(@, FileNode(name, path, is_dir, None))]>>

\* Line 90, one turn of the loop over an entry that was read.
NextEntry ==
    /\ Running
    /\ Top.pc = "loop"
    /\ Top.entries # <<>>
    /\ VisitEntry(Head(Top.entries))
    /\ UNCHANGED <<fs, args, result, prev, dirty, opens, failed, vanished>>

\* Line 91: the directory stream yields an error, entry? returns it.
EntryError ==
    /\ Running
    /\ Top.pc = "loop"
    /\ Top.entries # <<>>
    /\ ReturnErr("Io")
    /\ failed' = Len(stack)
    /\ UNCHANGED <<fs, args, prev, dirty, opens, vanished>>

\* Lines 115-124: the entries are through, the nodes are sorted and returned.
SortAndReturn ==
    /\ Running
    /\ Top.pc = "loop"
    /\ Top.entries = <<>>
    /\ ReturnOk(SortNodes(Top.nodes))
    /\ UNCHANGED <<fs, args, prev, dirty, opens, failed, vanished>>

-----------------------------------------------------------------------------
(* The external actor.                                                     *)

\* The file system with the entries E, without what no path leads to.
WithEntries(f, E) ==
    LET P == Prune(E) IN
    [ent |-> P,
     target |-> IF \E t \in P : t[3] = "l" THEN f.target ELSE <<>>]

\* The sub-directory the innermost call is about to enumerate is one in f
\* and none in g.
Vanishes(f, g) ==
    /\ Len(stack) > 1
    /\ Top.pc \in {"check", "open"}
    /\ IsDir(f, Top.path)
    /\ ~IsDir(g, Top.path)

\* The file system becomes g while a listing runs.
Modify(g) ==
    /\ Running
    /\ fs' = g
    /\ dirty' = TRUE
    /\ prev' = NoPrev
    /\ vanished' = (vanished \/ Vanishes(fs, g))
    /\ UNCHANGED <<args, stack, result, opens, failed>>

\* An entry is removed (with all that is below it).
ExternalRemove ==
    \E t \in fs.ent : Modify(WithEntries(fs, fs.ent \ {t}))

\* A directory is replaced by a regular file.
ExternalReplace ==
    \E t \in fs.ent :
        /\ t[3] \in Dirs
        /\ Modify(WithEntries(fs, (fs.ent \ {t}) \cup {<<t[1], t[2], "f">>}))

-----------------------------------------------------------------------------

\* The steps of a listing that meets no I/O error.
Proceed == CheckIsDir \/ OpenDir \/ NextEntry \/ SortAndReturn

Next ==
    \/ read_directory
    \/ read_dir_recursive
    \/ Proceed
    \/ OpenError
    \/ EntryError
    \/ ExternalRemove
    \/ ExternalReplace

Spec == Init /\ [][Next]_vars

\* The call runs on: nothing suspends a synchronous function. Whether an
\* I/O error or an external change happens is not up to the program.
FairSpec == Spec /\ WF_vars(Proceed)

-----------------------------------------------------------------------------
(* What the properties speak of.                                           *)

\* Every sibling group of a tree: the sequence itself and the children of
\* every node at every depth.
RECURSIVE Groups(_)
Groups(nodes) ==
    {nodes} \cup
    UNION {Groups(nodes[i].children.nodes) :
               i \in {k \in 1..Len(nodes) : nodes[k].children.some}}

\* Every node of a tree.
AllNodes(nodes) == UNION {{g[i] : i \in 1..Len(g)} : g \in Groups(nodes)}

\* A name the listing must not show: hidden, or of the ignore-set.
Excluded(name) ==
    \/ (name # <<>> /\ Head(name) = 46)
    \/ name \in {n_node_modules, n_target, n_pycache}

\* s is not behind t when letter case is ignored.
LowerLeq(s, t) == StrCmp(to_lowercase(s), to_lowercase(t)) \in {"Less", "Equal"}

\* The listing returned a tree.
Listed == Returned /\ result.st = "ok"

-----------------------------------------------------------------------------

DirsFirst(g) ==
    \A i, j \in 1..Len(g) : (i < j /\ ~g[i].is_dir) => ~g[j].is_dir

(* C1: in every sibling group of a returned tree, at every depth and for   *)
(* both values of recursive, no file is followed by a directory.           *)
C1_DirsBeforeFiles ==
    Listed => \A g \in Groups(result.nodes) : DirsFirst(g)

\* A returned tree with a directory and a file among the children of a node.
C1_Witness ==
    /\ Listed
    /\ \E g \in Groups(result.nodes) \ {result.nodes} :
           \E i, j \in 1..Len(g) : g[i].is_dir /\ ~g[j].is_dir

-----------------------------------------------------------------------------

NameOrdered(g) ==
    \A i, j \in 1..Len(g) :
        (i < j /\ g[i].is_dir = g[j].is_dir) => LowerLeq(g[i].name, g[j].name)

(* C2: in every sibling group of a returned tree, two nodes of the same    *)
(* kind are in the order of their lowercased names.                        *)
C2_CaseInsensitiveOrder ==
    Listed => \A g \in Groups(result.nodes) : NameOrdered(g)

\* A returned group in which the names as they are would sort the other way.
C2_Witness ==
    /\ Listed
    /\ \E g \in Groups(result.nodes) :
           \E i, j \in 1..Len(g) :
               /\ i < j
               /\ g[i].is_dir = g[j].is_dir
               /\ StrCmp(g[i].name, g[j].name) = "Greater"

-----------------------------------------------------------------------------
(* C3: a returned tree has no node with a hidden or ignored name, and no   *)
(* node below an entry with such a name: no component of a node's path     *)
(* under the listed root is hidden or ignored.                             *)
C3_ExcludedNowhere ==
    Listed =>
        \A n \in AllNodes(result.nodes) :
            /\ ~Excluded(n.name)
            /\ \A k \in (Len(args.path) + 1)..Len(n.path) : ~Excluded(n.path[k])

\* A tree was returned that shows the parent of an ignored directory which
\* is not empty and lies below the top level.
C3_Witness ==
    /\ Listed
    /\ ~dirty
    /\ \E t \in fs.ent :
           /\ t[1] # "d1"
           /\ t[3] \in Dirs
           /\ Excluded(t[2])
           /\ EntryNames(fs, t[3]) # {}
           /\ \E n \in AllNodes(result.nodes) :
                  n.children.some /\ Resolve(fs, n.path) = t[1]

-----------------------------------------------------------------------------
(* C4: a listing of a path that is no directory (not there, or a file)     *)
(* never calls read_dir and returns Ok with an empty sequence.             *)
C4_NotADirectoryIsEmpty ==
    ((Running \/ Returned) /\ ~dirty /\ ~IsDir(fs, args.path)) =>
        /\ ~opens
        /\ Returned => result = Ok(<<>>)

\* The listing of a regular file has returned.
C4_Witness ==
    /\ Returned
    /\ ~dirty
    /\ Resolve(fs, args.path) = "f"

-----------------------------------------------------------------------------

ChildrenIffDirAndRecursive ==
    Listed =>
        \A n \in AllNodes(result.nodes) :
            n.children.some <=> (n.is_dir /\ args.recursive)

(* C5: a node of a returned tree has children exactly if it is a directory *)
(* and the listing is recursive; read_directory lists recursively.         *)
C5_ChildrenIffDirAndRecursive ==
    /\ []ChildrenIffDirAndRecursive
    /\ [][read_directory => args'.recursive]_vars

\* A recursive listing returned a directory below the top level with its
\* children, and a file beside it.
C5_Witness ==
    /\ Listed
    /\ args.recursive
    /\ \E g \in Groups(result.nodes) \ {result.nodes} :
           \E i, j \in 1..Len(g) :
               /\ g[i].is_dir /\ g[i].children.some /\ g[i].children.nodes # <<>>
               /\ ~g[j].is_dir /\ ~g[j].children.some

-----------------------------------------------------------------------------
(* C6: once an enumeration has met an I/O error, at whatever depth, the    *)
(* listing is over and its result is an error, with no node.               *)
C6_ErrorPropagates ==
    failed > 0 => (~Running /\ result.st = "err" /\ result.nodes = <<>>)

\* The enumeration of a sub-directory failed in a listing that is over.
C6_Witness ==
    /\ Returned
    /\ failed > 1

-----------------------------------------------------------------------------
(* C7: a listing during which a sub-directory, seen as a directory by its  *)
(* parent, vanished before its enumeration began returns an error.         *)
C7_VanishedFails ==
    (Returned /\ vanished) => result.st = "err"

-----------------------------------------------------------------------------
(* C8: every call returns, and there is no result while it runs.           *)
C8_Terminates ==
    /\ [](Running => result.st = "none")
    /\ Running ~> Returned

\* A tree was returned that is deeper than there are directories: the
\* listing went round a cycle of symbolic links.
C8_Witness ==
    /\ Listed
    /\ \E n \in AllNodes(result.nodes) :
           Len(n.path) > Len(args.path) + Cardinality(Dirs)

-----------------------------------------------------------------------------

\* The nodes are those of the entries of the directory at path, level by
\* level.
RECURSIVE Exact(_, _)
Exact(nodes, path) ==
    LET d == Resolve(fs, path)
        names == IF d \in Dirs
                 THEN {n \in EntryNames(fs, d) : ~Excluded(n)} ELSE {}
    IN  /\ {nodes[i].name : i \in 1..Len(nodes)} = names
        /\ Len(nodes) = Cardinality(names)
        /\ \A i \in 1..Len(nodes) :
               /\ nodes[i].path = Append(path, nodes[i].name)
               /\ nodes[i].is_dir = IsDir(fs, nodes[i].path)
               /\ nodes[i].children.some =>
                      Exact(nodes[i].children.nodes, nodes[i].path)

(* C9: a tree returned from an unchanged file system shows, at every       *)
(* level, one node for each entry of the directory that is not hidden or   *)
(* ignored and no other node; the name is the entry's, the path is the     *)
(* directory's path with the name appended, is_dir is what stat says.      *)
C9_ExactListing ==
    (Listed /\ ~dirty) => Exact(result.nodes, args.path)

\* The scenario: root/ lists as a (a directory, no children in it) and
\* B.txt (a file, children absent).
C9_Witness ==
    /\ Listed
    /\ fs = ScenarioFS
    /\ args = [path |-> <<>>, recursive |-> TRUE]
    /\ result.nodes = << FileNode(n_a, <<n_a>>, TRUE, Some(<<>>)),
                         FileNode(n_Btxt, <<n_Btxt>>, FALSE, None) >>

-----------------------------------------------------------------------------

\* Two listings of the same path with the same flag have returned trees,
\* the file system unchanged from the start of the first to the end of the
\* second.
TwoListings ==
    /\ Listed
    /\ ~dirty
    /\ prev.result.st = "ok"

(* C10 as claimed: two listings of the same path with the same flag, the   *)
(* file system unchanged, return the same tree whatever the order the      *)
(* entries are enumerated in.                                              *)
C10_SameTree ==
    TwoListings => result.nodes = prev.result.nodes

\* No two siblings of one kind have names that are equal but for letter case.
NoCaseTies(nodes) ==
    \A g \in Groups(nodes) :
        \A i, j \in 1..Len(g) :
            (i # j /\ g[i].is_dir = g[j].is_dir) =>
                to_lowercase(g[i].name) # to_lowercase(g[j].name)

(* C10 as amended: the same tree, if no two siblings of one kind have      *)
(* names that are equal but for letter case.                               *)
C10_SameTreeWithoutCaseTies ==
    (TwoListings /\ NoCaseTies(result.nodes)) => result.nodes = prev.result.nodes

\* Two such listings of a directory with several entries of one kind.
C10_Witness ==
    /\ TwoListings
    /\ NoCaseTies(result.nodes)
    /\ \E g \in Groups(result.nodes) :
           \E i, j \in 1..Len(g) : i # j /\ g[i].is_dir = g[j].is_dir

====
